---- MODULE Spec2Model ----
(***************************************************************************)
(* ResumeMate: the text extractor, the skill extractors, the ATS scorer,   *)
(* the job matcher and the /match and /score handlers.                     *)
(*                                                                         *)
(* A text is a sequence of one-character strings.  Python's None is the    *)
(* value NoneText, which no text equals.  Scores are integers: a cosine    *)
(* percentage is counted in thousandths of a percent and a returned score  *)
(* (two decimals) in hundredths of a percent.                              *)
(***************************************************************************)
EXTENDS Integers, Sequences, FiniteSets, TLC

VARIABLES
    ats_resume,   \* ats_score_local: resume_text
    ats_job,      \* ats_score_local: job_desc
    ats_result,   \* ats_score_local: the returned dict, NoResult before the call
    ats_prev,     \* the result of the call made before the resume was edited
    jobs_db,      \* the catalog of job profiles (JOBS_DB), loaded at start
    m_resume,     \* score_against_jobs: resume_text
    m_top_n,      \* score_against_jobs: top_n
    m_fit_failed, \* score_against_jobs: the except branch was taken (vectorizer = None)
    m_scored,     \* score_against_jobs: the list results as the loop built it
    m_results,    \* score_against_jobs: the returned list, NoResult before the call
    hf_api_token, \* utils/nlp.py: HF_API_TOKEN is set
    nlp_text,     \* extract_skills_from_text: text
    nlp_max,      \* extract_skills_from_text: max_keywords
    hf_response,  \* what requests.post(...) gave, NoResult when it was not called
    nlp_skills,   \* extract_skills_from_text: the returned list, NoResult before the call
    d_text,       \* app.py extract_skills_from_text: text
    d_found,      \* app.py extract_skills_from_text: the returned set, NoResult before the call
    x_file,       \* safe_extract_text: file_storage
    x_parser_ok,  \* safe_extract_text: "from utils.parser import extract_text" succeeds
    x_text,       \* safe_extract_text: the returned text, NoResult before the call
    genai,        \* app.py: TRUE when GEMINI_API_KEY is set, FALSE when genai is None
    request,      \* the request a handler is called with
    handling,     \* the handler's locals and calls, NoResult before the request is handled
    http_response, \* what the handler returned or raised, NoResult before
    dl_request,   \* download_pdf, download_docx: the route and request.args of each request
    dl_pc,        \* where each download request is: "start", "written", "sent"
    tmp_files,    \* the files of tempfile.gettempdir(), by name
    dl_sent       \* what send_file delivered to each download request

atsVars == <<ats_resume, ats_job, ats_result, ats_prev>>
matchVars == <<jobs_db, m_resume, m_top_n, m_fit_failed, m_scored, m_results>>
nlpVars == <<hf_api_token, nlp_text, nlp_max, hf_response, nlp_skills>>
dictVars == <<d_text, d_found>>
extractVars == <<x_file, x_parser_ok, x_text>>
handlerVars == <<genai, request, handling, http_response>>
downloadVars == <<dl_request, dl_pc, tmp_files, dl_sent>>
vars == <<atsVars, matchVars, nlpVars, dictVars, extractVars, handlerVars, downloadVars>>

---------------------------------------------------------------------------
(* Characters and texts *)

NoneText == <<"None">>
\* no call has returned yet
NoResult == [status |-> "none"]
\* the operation is not exercised in this run
Idle == [status |-> "idle"]

UpperSeq == <<"A","B","C","D","E","F","G","H","I","J","K","L","M","N","O","P","Q","R","S","T","U","V","W","X","Y","Z">>
LowerSeq == <<"a","b","c","d","e","f","g","h","i","j","k","l","m","n","o","p","q","r","s","t","u","v","w","x","y","z">>
UpperLetters == {UpperSeq[i] : i \in 1..Len(UpperSeq)}
Digits == {"0","1","2","3","4","5","6","7","8","9"}
Letters == {LowerSeq[i] : i \in 1..Len(LowerSeq)} \cup UpperLetters
\* the characters \w matches
WordChars == Letters \cup Digits \cup {"_"}
\* the characters \s matches, which str.strip() removes
SpaceChars == {" ", "\n", "\t"}

LowerTable == [c \in UpperLetters |-> LowerSeq[CHOOSE i \in 1..Len(UpperSeq) : UpperSeq[i] = c]]
LowerChar(c) == IF c \in UpperLetters THEN LowerTable[c] ELSE c
\* str.lower()
Lower(t) == SubSeq([i \in 1..Len(t) |-> LowerChar(t[i])], 1, Len(t))

\* (x or ""): None and the empty text both give the empty text
OrEmpty(t) == IF t = NoneText THEN << >> ELSE t

\* k in text, for two strings: k occurs as a contiguous run of text
IsSubstring(k, t) ==
    \E i \in 0..(Len(t) - Len(k)) : \A j \in 1..Len(k) : t[i + j] = k[j]

\* s[:n]
Take(s, n) == SubSeq(s, 1, IF Len(s) < n THEN Len(s) ELSE n)

RECURSIVE JoinWith(_, _)
\* sep.join(parts) (the recursion halves the list)
JoinWith(parts, sep) ==
    IF Len(parts) = 0 THEN << >>
    ELSE IF Len(parts) = 1 THEN parts[1]
    ELSE LET h == Len(parts) \div 2 IN
         JoinWith(SubSeq(parts, 1, h), sep) \o sep
             \o JoinWith(SubSeq(parts, h + 1, Len(parts)), sep)

\* the indices 1..n, ascending
Indices(n) == [i \in 1..n |-> i]

\* the end (exclusive) of the maximal run of characters of class cls that starts at i
RunEnd(t, cls, i) ==
    CHOOSE e \in (i + 1)..(Len(t) + 1) :
        /\ e = Len(t) + 1 \/ t[e] \notin cls
        /\ \A j \in i..(e - 1) : t[j] \in cls

\* re.findall(r"[cls]{minLen,}", t): the maximal runs of at least minLen characters,
\* left to right
FindAll(t, cls, minLen) ==
    LET starts == SelectSeq(Indices(Len(t)), LAMBDA i :
                      /\ t[i] \in cls
                      /\ i = 1 \/ t[i - 1] \notin cls
                      /\ RunEnd(t, cls, i) - i >= minLen)
    IN  [k \in 1..Len(starts) |-> SubSeq(t, starts[k], RunEnd(t, cls, starts[k]) - 1)]

\* the first occurrence of each element, in order ("if k not in seen: ... append")
Dedup(s) ==
    LET firsts == SelectSeq(Indices(Len(s)), LAMBDA i : \A j \in 1..(i - 1) : s[j] # s[i])
    IN  [k \in 1..Len(firsts) |-> s[firsts[k]]]

\* position p lies between t[p] and t[p + 1] (0 is the start, Len(t) the end): \b matches
\* there when exactly one of the two is a word character
IsBoundary(t, p) ==
    (p >= 1 /\ t[p] \in WordChars) # (p < Len(t) /\ t[p + 1] \in WordChars)

\* the end (exclusive) of the match of \b[cls]{minLen,}\b that starts at i, 0 when
\* there is none: the longest run that ends at a boundary (the quantifier is greedy
\* and backs off)
BoundedMatchEnd(t, cls, minLen, i) ==
    LET ends == {e \in (i + minLen)..(Len(t) + 1) :
                    /\ \A j \in i..(e - 1) : t[j] \in cls
                    /\ IsBoundary(t, e - 1)}
    IN  IF IsBoundary(t, i - 1) /\ ends # {}
        THEN CHOOSE e \in ends : \A f \in ends : f <= e
        ELSE 0

\* re.findall(r"\b[cls]{minLen,}\b", t): the matches left to right, each search
\* starting where the previous match ended
RECURSIVE FindAllBoundedFrom(_, _, _, _)
FindAllBoundedFrom(t, cls, minLen, i) ==
    IF i > Len(t) THEN << >>
    ELSE LET e == BoundedMatchEnd(t, cls, minLen, i) IN
         IF e = 0 THEN FindAllBoundedFrom(t, cls, minLen, i + 1)
         ELSE <<SubSeq(t, i, e - 1)>> \o FindAllBoundedFrom(t, cls, minLen, e)
FindAllBounded(t, cls, minLen) == FindAllBoundedFrom(t, cls, minLen, 1)

\* str.strip()
Strip(t) ==
    LET keep == {i \in 1..Len(t) : t[i] \notin SpaceChars} IN
    IF keep = {} THEN << >>
    ELSE SubSeq(t, CHOOSE a \in keep : \A b \in keep : a <= b,
                   CHOOSE a \in keep : \A b \in keep : a >= b)

Range(s) == {s[i] : i \in 1..Len(s)}
Min(a, b) == IF a < b THEN a ELSE b
Max(a, b) == IF a > b THEN a ELSE b

---------------------------------------------------------------------------
(* scikit-learn, as utils/scorer.py uses it *)

\* cosine_similarity(...) * 100 of two identical directions, in thousandths of a percent
CosFull == 100000
\* the number of cosine values the model draws strictly between 0 and CosFull,
\* besides the smallest and the largest
CosSteps == 1

\* TfidfVectorizer's analyzer: lowercase, token_pattern (?u)\b\w\w+\b
TfidfTokens(doc) == FindAll(Lower(doc), WordChars, 2)

\* TfidfVectorizer().fit(docs) raises: a document that is None (it has no lower()),
\* or no document has a token ("empty vocabulary")
FitFails(docs) ==
    \/ \E i \in 1..Len(docs) : docs[i] = NoneText
    \/ \A i \in 1..Len(docs) : TfidfTokens(docs[i]) = << >>

\* cosine_similarity(vec(a), vec(b))[0][0] * 100 under a fitted vectorizer: 0 when the
\* documents share no token (one of them may have none); otherwise positive, at most
\* CosFull, or one floating-point step above it (CosFull + 1 stands for that value)
PositiveCosines ==
    {1, CosFull + 1} \cup {(k * CosFull) \div (CosSteps + 1) : k \in 1..CosSteps}
CosineOutcomes(a, b) ==
    IF Range(TfidfTokens(a)) \cap Range(TfidfTokens(b)) = {}
    THEN {0}
    ELSE PositiveCosines

\* (a rounding that always rounds up)
Round2_Ceil(num, den) ==
    IF num % (10 * den) = 0 THEN num \div (10 * den) ELSE (num \div (10 * den)) + 1

\* round(x, 2) of the non-negative rational num/den thousandths of a percent, in
\* hundredths of a percent (ties to even)
Round2(num, den) ==
    LET q == num \div (10 * den)
        r == num % (10 * den)
    IN  IF 2 * r > 10 * den THEN q + 1
        ELSE IF 2 * r < 10 * den THEN q
        ELSE IF q % 2 = 0 THEN q ELSE q + 1

---------------------------------------------------------------------------
(* utils/scorer.py: ats_score_local *)

\* the [:50] of the returned keyword lists
MaxReturned == 50
\* the [:8] of the suggested keywords
MaxSuggested == 8

\* the characters of [a-zA-Z\+\#\.\-]
KeywordChars == Letters \cup {"+", "#", ".", "-"}

\* jd_keywords: re.findall(r"[a-zA-Z\+\#\.\-]{2,}", job_desc.lower())
JdKeywords(job_desc) == FindAll(Lower(job_desc), KeywordChars, 2)

\* jd_unique: unique, preserving order
JdUnique(job_desc) == Dedup(JdKeywords(job_desc))

\* (the operands of "in" exchanged)
AtsMatched_Reversed(jd_unique, resume_lower) ==
    SelectSeq(jd_unique, LAMBDA k : IsSubstring(resume_lower, k))

\* matched = [k for k in jd_unique if k in resume_lower]
AtsMatched(jd_unique, resume_lower) ==
    SelectSeq(jd_unique, LAMBDA k : IsSubstring(k, resume_lower))

\* (the "not" left out)
AtsMissing_NoNot(jd_unique, resume_lower) ==
    SelectSeq(jd_unique, LAMBDA k : IsSubstring(k, resume_lower))

\* missing = [k for k in jd_unique if k not in resume_lower]
AtsMissing(jd_unique, resume_lower) ==
    SelectSeq(jd_unique, LAMBDA k : ~IsSubstring(k, resume_lower))

\* the outcomes of the try block: sim in thousandths of a percent, 0.0 on an exception
AtsSimOutcomes(resume_text, job_desc) ==
    IF FitFails(<<resume_text, job_desc>>) THEN {0}
    ELSE CosineOutcomes(resume_text, job_desc)

\* final_score = round(max(0, min(100, 0.6 * sim + 0.4 * presence_frac * 100)), 2),
\* with presence_frac = nMatched / max(1, nUnique); in hundredths of a percent
FinalScore(sim, nMatched, nUnique) ==
    LET d == Max(1, nUnique)
        \* 0.6 * sim + 40 * nMatched / d, in thousandths of a percent, over 10 * d
        num == 6 * sim * d + 400000 * nMatched
        den == 10 * d
        clampedNum == Max(0, Min(CosFull * den, num))
    IN  Round2(clampedNum, den)

\* the suggestions string, by its parts
Suggestions(missing, nMatched, nUnique) ==
    [add |-> IF Len(missing) > 0 THEN Take(missing, MaxSuggested) ELSE << >>,
     coach |-> 2 * nMatched < Max(1, nUnique),
     good |-> Len(missing) = 0 /\ ~(2 * nMatched < Max(1, nUnique))]

\* the dict ats_score_local returns, given its keyword lists and the similarity sim
AtsAssemble(jd_unique, matched, missing, sim) ==
    [status |-> "done",
     ats_score |-> FinalScore(sim, Len(matched), Len(jd_unique)),
     matched_keywords |-> Take(matched, MaxReturned),
     missing_keywords |-> Take(missing, MaxReturned),
     suggestions |-> Suggestions(missing, Len(matched), Len(jd_unique))]

\* the dicts ats_score_local(resume_text, job_desc) can return: one for each outcome
\* of the try block
AtsScoreLocal(resume_text, job_desc) ==
    LET resume_lower == Lower(OrEmpty(resume_text))
        jd_unique == JdUnique(job_desc)
        matched == AtsMatched(jd_unique, resume_lower)
        missing == AtsMissing(jd_unique, resume_lower)
    IN  {AtsAssemble(jd_unique, matched, missing, sim) :
            sim \in AtsSimOutcomes(resume_text, job_desc)}

\* the resume with every keyword of kws appended, space separated
AppendKeywords(resume_text, kws) ==
    IF Len(kws) = 0 THEN resume_text
    ELSE resume_text \o <<" ">> \o JoinWith(kws, <<" ">>)

(* the texts the scorer is called with *)

\* the largest number of distinct keywords in a generated job description
MaxKw == 52

\* the generated job descriptions have at most MaxFew, or MaxReturned - 1 to MaxKw, keywords
MaxFew == 3
\* the largest number of leading generated keywords a generated resume leaves out
MaxSkip == 3

WordLetters == <<"a","b","c","d","e","f","g","h">>
\* the i-th generated keyword: two letters
Word(i) == <<WordLetters[((i - 1) \div 8) + 1], WordLetters[((i - 1) % 8) + 1]>>
\* the generated keywords lo..hi
Words(lo, hi) == [i \in 1..(IF hi >= lo THEN hi - lo + 1 ELSE 0) |-> Word(lo + i - 1)]

AtsJobs ==
    {JoinWith(Words(1, n), <<","," ">>) : n \in (0..MaxFew) \cup ((MaxReturned - 1)..MaxKw)}
    \cup {<<"L","o","o","k","i","n","g"," ","f","o","r"," ","P","y","t","h","o","n",","," ","S","Q","L",","," ","D","o","c","k","e","r"," ","e","x","p","e","r","t">>, <<"a"," ","b">>, <<"C","+","+"," ","c","+","+"," ","C","#"," ","n","o","d","e",".","j","s"," ","j","a","v","a"," ","s","c","r","i","p","t">>}
AtsResumes ==
    {JoinWith(Words(lo, MaxKw), <<" ">>) : lo \in 1..(MaxSkip + 1)}
    \cup {<< >>, <<"E","x","p","e","r","i","e","n","c","e","d"," ","P","y","t","h","o","n"," ","d","e","v","e","l","o","p","e","r"," ","w","i","t","h"," ","S","Q","L"," ","a","n","d"," ","A","W","S"," ","b","a","c","k","g","r","o","u","n","d">>,
          <<"j","a","v","a","s","c","r","i","p","t"," ","c"," ","1">>, <<"p","y","t","h","o","n">>, NoneText}

AtsInit ==
    /\ ats_resume \in AtsResumes
    /\ ats_job \in AtsJobs
    /\ ats_result = NoResult
    /\ ats_prev = NoResult

\* one call ats_score_local(ats_resume, ats_job)
AtsCall ==
    /\ ats_result = NoResult
    /\ ats_result' \in AtsScoreLocal(ats_resume, ats_job)
    /\ UNCHANGED <<ats_resume, ats_job, ats_prev>>
    /\ UNCHANGED <<matchVars, nlpVars, dictVars, extractVars, handlerVars, downloadVars>>

\* the user follows the suggestion: every returned missing keyword is appended to
\* the resume, which is then scored again
AtsAppendMissing ==
    /\ ats_result # NoResult
    /\ ats_prev = NoResult
    /\ ats_resume # NoneText
    /\ ats_resume' = AppendKeywords(ats_resume, ats_result.missing_keywords)
    /\ ats_prev' = ats_result
    /\ ats_result' = NoResult
    /\ UNCHANGED ats_job
    /\ UNCHANGED <<matchVars, nlpVars, dictVars, extractVars, handlerVars, downloadVars>>

AtsIdle ==
    /\ ats_resume = NoneText
    /\ ats_job = NoneText
    /\ ats_result = Idle
    /\ ats_prev = Idle


---------------------------------------------------------------------------
(* utils/scorer.py: score_against_jobs *)

\* top_n: int = 6
DefaultTopN == 6

\* job_docs: " ".join(job.get("keywords", []))
JobDoc(job) == JoinWith(job.keywords, <<" ">>)

\* matched = [k for k in keywords if k.lower() in resume_lower]
JobMatched(keywords, resume_lower) ==
    SelectSeq(keywords, LAMBDA k : IsSubstring(Lower(k), resume_lower))

\* missing = [k for k in keywords if k.lower() not in resume_lower]
JobMissing(keywords, resume_lower) ==
    SelectSeq(keywords, LAMBDA k : ~IsSubstring(Lower(k), resume_lower))

\* (the presence lists computed under "if vectorizer:" only)
JobResult_PresenceUnderIf(job, matched, missing, fitted, cos) ==
    [title |-> job.title,
     score |-> Round2(IF fitted THEN cos ELSE 0, 1),
     matched |-> IF fitted THEN matched ELSE << >>,
     missing |-> IF fitted THEN missing ELSE << >>,
     job_keywords |-> job.keywords]

\* the dict appended for one job; cos is the job's cosine percentage when the
\* vectorizer exists (score stays 0.0 otherwise)
JobResult(job, matched, missing, fitted, cos) ==
    [title |-> job.title,
     score |-> Round2(IF fitted THEN cos ELSE 0, 1),
     matched |-> matched,
     missing |-> missing,
     job_keywords |-> job.keywords]

\* (x placed before the elements of equal score)
RECURSIVE InsertByScore_BeforeEqual(_, _)
InsertByScore_BeforeEqual(sorted, x) ==
    IF Len(sorted) = 0 THEN <<x>>
    ELSE IF Head(sorted).score > x.score
         THEN <<Head(sorted)>> \o InsertByScore_BeforeEqual(Tail(sorted), x)
         ELSE <<x>> \o sorted

\* x placed into a list already in sorted(..., reverse=True) order, behind every
\* element whose score is not lower: equal scores keep their order of arrival
RECURSIVE InsertByScore(_, _)
InsertByScore(sorted, x) ==
    IF Len(sorted) = 0 THEN <<x>>
    ELSE IF Head(sorted).score >= x.score
         THEN <<Head(sorted)>> \o InsertByScore(Tail(sorted), x)
         ELSE <<x>> \o sorted

\* sorted(results, key=lambda x: x["score"], reverse=True)
RECURSIVE SortByScoreDesc(_)
SortByScoreDesc(results) ==
    IF Len(results) = 0 THEN << >>
    ELSE InsertByScore(SortByScoreDesc(SubSeq(results, 1, Len(results) - 1)),
                       results[Len(results)])

\* the cosine percentages the jobs of the catalog can get in one call: the same
\* document gets the same value; all 0 when there is no vectorizer
JobCosines(resume_text, job_docs, failed) ==
    LET docs == Range(job_docs)
        outs == {<<d, IF failed THEN {0} ELSE CosineOutcomes(resume_text, d)>> : d \in docs}
    IN  {[i \in 1..Len(job_docs) |-> cosDoc[job_docs[i]]] :
            cosDoc \in {f \in [docs -> {0} \cup PositiveCosines] :
                           \A o \in outs : f[o[1]] \in o[2]}}

\* whether the try block of score_against_jobs ends in the except branch
MatchFitFails(resume_text, catalog) ==
    FitFails(<<resume_text>> \o [i \in 1..Len(catalog) |-> JobDoc(catalog[i])])

\* the runs of score_against_jobs(resume_text, catalog, top_n), one for each outcome
\* of the vectorizer: the list results built by the loop, and the list returned
ScoreAgainstJobs(resume_text, catalog, top_n) ==
    LET resume_lower == Lower(OrEmpty(resume_text))
        n == Len(catalog)
        job_docs == SubSeq([i \in 1..n |-> JobDoc(catalog[i])], 1, n)
        failed == MatchFitFails(resume_text, catalog)
        matched == SubSeq([i \in 1..n |-> JobMatched(catalog[i].keywords, resume_lower)], 1, n)
        missing == SubSeq([i \in 1..n |-> JobMissing(catalog[i].keywords, resume_lower)], 1, n)
        Results(cosOf) ==
            SubSeq([i \in 1..n |->
                JobResult(catalog[i], matched[i], missing[i], ~failed, cosOf[i])], 1, n)
    IN  {[results |-> Results(cosOf),
          returned |-> Take(SortByScoreDesc(Results(cosOf)), top_n)] :
            cosOf \in JobCosines(resume_text, job_docs, failed)}

(* the catalogs and the resumes the matcher is called with *)

\* the largest catalog
MaxJobs == 10
\* the largest number of profiles of a catalog that have keywords of two or more letters
MaxStrong == 2

\* the keyword lists of the profiles: 1 has one-letter keywords only
KeywordLists == <<
    <<<<"c">>, <<"R">>>>,
    <<<<"P","y","t","h","o","n">>, <<"S","Q","L">>, <<"D","o","c","k","e","r">>>>,
    <<<<"j","a","v","a">>, <<"s","q","l">>>> >>

\* the catalogs: profile i is titled i
Catalogs ==
    UNION {
        { [i \in 1..n |-> [title |-> i, keywords |-> KeywordLists[kind[i]]]] :
            kind \in {f \in [1..n -> 1..Len(KeywordLists)] :
                         Cardinality({i \in 1..n : f[i] # 1}) <= MaxStrong} } :
        n \in 0..MaxJobs }

MatchResumes == {<<"p","y","t","h","o","n"," ","a","n","d"," ","s","q","l",","," ","c">>, <<"c">>, NoneText}
TopNs == {DefaultTopN, 2}

MatchInit ==
    /\ jobs_db \in Catalogs
    /\ m_resume = NoneText
    /\ m_top_n = DefaultTopN
    /\ m_fit_failed = FALSE
    /\ m_scored = << >>
    /\ m_results = NoResult

MatchIdle ==
    /\ jobs_db = << >>
    /\ m_resume = NoneText
    /\ m_top_n = DefaultTopN
    /\ m_fit_failed = FALSE
    /\ m_scored = << >>
    /\ m_results = Idle

\* one call score_against_jobs(resume_text, jobs_db, top_n)
MatchCall ==
    /\ m_results = NoResult
    /\ \E resume_text \in MatchResumes, top_n \in TopNs :
         \E run \in ScoreAgainstJobs(resume_text, jobs_db, top_n) :
               /\ m_resume' = resume_text
               /\ m_top_n' = top_n
               /\ m_fit_failed' = MatchFitFails(resume_text, jobs_db)
               /\ m_scored' = run.results
               /\ m_results' = [status |-> "done", list |-> run.returned]
    /\ UNCHANGED jobs_db
    /\ UNCHANGED <<atsVars, nlpVars, dictVars, extractVars, handlerVars, downloadVars>>

---------------------------------------------------------------------------
(* utils/nlp.py *)

\* max_keywords: int = 30 of extract_skills_from_text and simple_skill_extractor
DefaultMaxKeywords == 30
\* len(c.strip()) >= 2
MinCandidateLen == 2
\* {3,} of the token pattern
MinTokenLen == 3

COMMON_SKILLS == <<
    <<"p","y","t","h","o","n">>, <<"j","a","v","a">>, <<"c","+","+">>, <<"c">>, <<"j","a","v","a","s","c","r","i","p","t">>, <<"r","e","a","c","t">>, <<"a","n","g","u","l","a","r">>, <<"n","o","d","e","j","s">>,
    <<"s","q","l">>, <<"m","y","s","q","l">>, <<"p","o","s","t","g","r","e","s","q","l">>, <<"m","o","n","g","o","d","b">>, <<"t","e","n","s","o","r","f","l","o","w">>, <<"p","y","t","o","r","c","h">>,
    <<"m","a","c","h","i","n","e"," ","l","e","a","r","n","i","n","g">>, <<"d","e","e","p"," ","l","e","a","r","n","i","n","g">>, <<"n","l","p">>, <<"c","o","m","p","u","t","e","r"," ","v","i","s","i","o","n">>, <<"p","a","n","d","a","s">>,
    <<"n","u","m","p","y">>, <<"s","c","i","k","i","t","-","l","e","a","r","n">>, <<"a","w","s">>, <<"a","z","u","r","e">>, <<"d","o","c","k","e","r">>, <<"k","u","b","e","r","n","e","t","e","s">>, <<"g","i","t">>,
    <<"h","t","m","l">>, <<"c","s","s">>, <<"b","o","o","t","s","t","r","a","p">>, <<"r","e","s","t">>, <<"a","p","i">>, <<"f","l","a","s","k">>, <<"d","j","a","n","g","o">>, <<"l","i","n","u","x">> >>

\* ("the","and","for","with","this","that","from")
GenericWords == {<<"t","h","e">>, <<"a","n","d">>, <<"f","o","r">>, <<"w","i","t","h">>, <<"t","h","i","s">>, <<"t","h","a","t">>, <<"f","r","o","m">>}

\* the characters of [a-zA-Z0-9\+\#\.\-]
TokenChars == Letters \cup Digits \cup {"+", "#", ".", "-"}
\* the characters of [,\n;]
SeparatorChars == {",", "\n", ";"}

\* an item of a JSON list the model returned
HfItem(t, text) == [t |-> t, text |-> text]

\* what requests.post(...).json() gives: an exception on the way, or the JSON data
\* ("exception"), a dict with an error field ("dict_error"), a list of items, a string,
\* or any other data with its str(data)
HfData(kind, items, text) == [kind |-> kind, items |-> items, text |-> text]
HfException == HfData("exception", << >>, << >>)

\* joined: the one string the shapes are normalised to
HfJoined(data) ==
    IF data.kind = "list"
    THEN LET parts == SelectSeq(data.items, LAMBDA it : it.t \in {"generated_text", "str"})
         IN  JoinWith([i \in 1..Len(parts) |-> parts[i].text], <<" ">>)
    ELSE data.text

\* re.split(r"[,\n;]+", joined), without the empty strings it may give at either end
\* (they fail len(c.strip()) >= 2 anyway)
SplitCandidates(joined) == FindAll(joined, Range(joined) \ SeparatorChars, 1)

\* cleaned = [c.strip().lower() for c in candidates if len(c.strip()) >= 2]
HfCleaned(joined) ==
    LET kept == SelectSeq(SplitCandidates(joined),
                          LAMBDA c : Len(Strip(c)) >= MinCandidateLen)
    IN  SubSeq([i \in 1..Len(kept) |-> Lower(Strip(kept[i]))], 1, Len(kept))

\* the dedupe-and-limit loop: the break is tested after each keyword, also after the
\* first one when max_keywords is not positive
HfLimited(cleaned, max_keywords) == Take(Dedup(cleaned), Max(1, max_keywords))

\* call_hf_keyphrase_model(text, max_keywords), the HTTP call giving response
CallHfKeyphraseModel(response, max_keywords) ==
    IF response.kind \in {"exception", "dict_error"} THEN << >>
    ELSE HfLimited(HfCleaned(HfJoined(response)), max_keywords)

\* the first loop of simple_skill_extractor over COMMON_SKILLS[i..]: the list found,
\* and whether the loop returned it ("if len(found) >= max_keywords: return found")
RECURSIVE CommonFound(_, _, _, _)
CommonFound(text_lower, max_keywords, i, found) ==
    IF i > Len(COMMON_SKILLS) THEN [found |-> found, returned |-> FALSE]
    ELSE LET skill == COMMON_SKILLS[i] IN
         IF IsSubstring(skill, text_lower) /\ skill \notin Range(found)
         THEN IF Len(found) + 1 >= max_keywords
              THEN [found |-> Append(found, skill), returned |-> TRUE]
              ELSE CommonFound(text_lower, max_keywords, i + 1, Append(found, skill))
         ELSE CommonFound(text_lower, max_keywords, i + 1, found)

\* the second loop of simple_skill_extractor, over the tokens
RECURSIVE TokensFound(_, _, _)
TokensFound(tokens, max_keywords, found) ==
    IF Len(tokens) = 0 THEN found
    ELSE LET tl == Lower(Head(tokens)) IN
         IF tl \notin Range(found) /\ Len(found) < max_keywords /\ tl \notin GenericWords
         THEN TokensFound(Tail(tokens), max_keywords, Append(found, tl))
         ELSE TokensFound(Tail(tokens), max_keywords, found)

\* simple_skill_extractor(text, max_keywords)
SimpleSkillExtractor(text, max_keywords) ==
    LET common == CommonFound(Lower(text), max_keywords, 1, << >>) IN
    IF common.returned THEN common.found
    ELSE Take(TokensFound(FindAllBounded(text, TokenChars, MinTokenLen),
                          max_keywords, common.found),
              max_keywords)

\* extract_skills_from_text(text, max_keywords); response is what the HTTP call gives
\* when it is made
NlpExtractSkills(text, max_keywords, token, response) ==
    LET stripped == Strip(OrEmpty(text))
        keywords == IF token THEN CallHfKeyphraseModel(response, max_keywords) ELSE << >>
    IN  IF stripped = << >> THEN << >>
        ELSE IF token /\ keywords # << >> THEN keywords
        ELSE SimpleSkillExtractor(stripped, max_keywords)

(* the texts and the responses of the model endpoint *)

NlpTexts == {
    NoneText, << >>, <<" ","\n"," ">>, <<"c">>, <<"M","u","s","i","c"," ","a","n","d"," ","a","r","t">>, <<"I"," ","k","n","o","w"," ","C","+","+",","," ","C","#"," ","a","n","d"," ","N","o","d","e",".","j","s">>,
    <<"P","y","t","h","o","n"," ","p","y","t","h","o","n"," ","P","Y","T","H","O","N"," ","s","q","l",";"," ","t","h","e"," ","R","E","S","T"," ","a","p","i">>, <<"M","L","-","o","p","s"," ","w","i","t","h"," ","s","c","i","k","i","t","-","l","e","a","r","n"," ","f","o","r"," ","t","h","e"," ","w","i","n">>,
    <<"g","o"," ","R">>, <<"m","a","c","h","i","n","e"," ","l","e","a","r","n","i","n","g",","," ","d","e","e","p"," ","l","e","a","r","n","i","n","g"," ","a","n","d"," ","N","L","P"," ","a","t"," ","A","W","S">> }

HfResponses == {
    HfException,
    HfData("dict_error", << >>, << >>),
    HfData("list", << >>, << >>),
    HfData("list", <<HfItem("generated_text", <<"P","y","t","h","o","n",","," ","S","Q","L","\n"," ","p","y","t","h","o","n"," ",";","x",","," ",",","D","a","t","a"," ","S","c","i","e","n","c","e">>)>>,
           << >>),
    HfData("list", <<HfItem("str", <<"a","w","s">>), HfItem("other", << >>),
                     HfItem("generated_text", <<"A","W","S",";","d","o","c","k","e","r">>)>>, << >>),
    HfData("str", << >>, <<"j","a","v","a",","," "," ",",","c",","," ","g","o">>),
    HfData("str", << >>, <<"a">>),
    HfData("other", << >>, <<"{","'","l","a","b","e","l","'",":"," ","'","x","'","}">>) }

\* the values of max_keywords the extractor is called with, besides the default
SmallMaxKeywords == 2
NlpMaxKeywords == {DefaultMaxKeywords} \cup (1..SmallMaxKeywords)

NlpInit ==
    /\ hf_api_token \in BOOLEAN
    /\ nlp_text \in NlpTexts
    /\ nlp_max \in NlpMaxKeywords
    /\ hf_response = NoResult
    /\ nlp_skills = NoResult

NlpIdle ==
    /\ hf_api_token = FALSE
    /\ nlp_text = NoneText
    /\ nlp_max = DefaultMaxKeywords
    /\ hf_response = Idle
    /\ nlp_skills = Idle

\* one call extract_skills_from_text(nlp_text, nlp_max) when HF_API_TOKEN is not set
NlpExtractOffline ==
    /\ nlp_skills = NoResult
    /\ ~hf_api_token
    /\ nlp_skills' = [status |-> "done",
                      list |-> NlpExtractSkills(nlp_text, nlp_max, FALSE, HfException)]
    /\ UNCHANGED <<hf_api_token, nlp_text, nlp_max, hf_response>>
    /\ UNCHANGED <<atsVars, matchVars, dictVars, extractVars, handlerVars, downloadVars>>

\* one call extract_skills_from_text(nlp_text, nlp_max) when HF_API_TOKEN is set: the
\* endpoint is called unless the text is blank
NlpExtractOnline ==
    /\ nlp_skills = NoResult
    /\ hf_api_token
    /\ \E response \in HfResponses :
         /\ hf_response' = IF Strip(OrEmpty(nlp_text)) = << >> THEN NoResult ELSE response
         /\ nlp_skills' = [status |-> "done",
                           list |-> NlpExtractSkills(nlp_text, nlp_max, TRUE, response)]
    /\ UNCHANGED <<hf_api_token, nlp_text, nlp_max>>
    /\ UNCHANGED <<atsVars, matchVars, dictVars, extractVars, handlerVars, downloadVars>>

NlpNext == NlpExtractOffline \/ NlpExtractOnline

---------------------------------------------------------------------------
(* app.py: the dictionary matcher *)

KNOWN_SKILLS == {
    <<"p","y","t","h","o","n">>, <<"j","a","v","a">>, <<"c","+","+">>, <<"j","a","v","a","s","c","r","i","p","t">>, <<"h","t","m","l">>, <<"c","s","s">>, <<"s","q","l">>,
    <<"m","a","c","h","i","n","e"," ","l","e","a","r","n","i","n","g">>, <<"d","e","e","p"," ","l","e","a","r","n","i","n","g">>, <<"n","l","p">>, <<"d","a","t","a"," ","a","n","a","l","y","s","i","s">>,
    <<"e","x","c","e","l">>, <<"p","o","w","e","r"," ","b","i">>, <<"t","a","b","l","e","a","u">>, <<"c","l","o","u","d">>, <<"a","w","s">>, <<"a","z","u","r","e">>,
    <<"f","l","a","s","k">>, <<"d","j","a","n","g","o">>, <<"r","e","a","c","t">>, <<"n","o","d","e",".","j","s">>, <<"g","i","t">>, <<"d","o","c","k","e","r">>, <<"k","u","b","e","r","n","e","t","e","s">> }

\* re.search(rf"\b{re.escape(skill)}\b", text): skill occurs in text with \b matching
\* before and after the occurrence
SearchBounded(skill, text) ==
    \E i \in 0..(Len(text) - Len(skill)) :
        /\ \A j \in 1..Len(skill) : text[i + j] = skill[j]
        /\ IsBoundary(text, i)
        /\ IsBoundary(text, i + Len(skill))

\* extract_skills_from_text(text) of app.py
DictExtractSkills(text) ==
    LET lowered == Lower(OrEmpty(text)) IN
    {skill \in KNOWN_SKILLS : SearchBounded(skill, lowered)}

(* the texts the matcher is called with: up to MaxFragments fragments in a row *)

MaxFragments == 3
Fragments == {
    <<"j","a","v","a">>, <<"s","c","r","i","p","t">>, <<"c","+","+">>, <<"C","+","+">>, <<" ">>, <<"1">>, <<"n","o","d","e",".","j","s">>, <<"p","o","w","e","r"," ","b","i">>,
    <<".">>, <<"x">>, <<"+">>, <<" ","d","e","v","e","l","o","p","e","r">> }

DictTexts ==
    {NoneText} \cup
    {JoinWith(parts, << >>) : parts \in UNION {[1..n -> Fragments] : n \in 0..MaxFragments}}

DictInit ==
    /\ d_text \in DictTexts
    /\ d_found = NoResult

DictIdle ==
    /\ d_text = NoneText
    /\ d_found = Idle

\* one call extract_skills_from_text(d_text)
DictExtract ==
    /\ d_found = NoResult
    /\ d_found' = [status |-> "done", skills |-> DictExtractSkills(d_text)]
    /\ UNCHANGED d_text
    /\ UNCHANGED <<atsVars, matchVars, nlpVars, extractVars, handlerVars, downloadVars>>

---------------------------------------------------------------------------
(* utils/parser.py and app.py: text extraction *)

\* the bytes of an uploaded file, by what the parsers make of them:
\*   empty     there are no bytes
\*   magic     the bytes begin with %PDF
\*   pdf_ok    fitz.open(stream=data, filetype="pdf") succeeds; pages: page.get_text()
\*   docx_ok   docx.Document(BytesIO(data)) succeeds; paragraphs: p.text
\*   raw       data.decode("utf-8", errors="ignore")
FileData(empty, magic, pdf_ok, pages, docx_ok, paragraphs, raw) ==
    [empty |-> empty, magic |-> magic, pdf_ok |-> pdf_ok, pages |-> pages,
     docx_ok |-> docx_ok, paragraphs |-> paragraphs, raw |-> raw]

EmptyData == FileData(TRUE, FALSE, FALSE, << >>, FALSE, << >>, << >>)
\* request.files.get("resume_file") when no file was chosen
NoFile == [filename |-> << >>, data |-> EmptyData]

\* s.endswith(suffix)
EndsWith(t, suffix) ==
    /\ Len(t) >= Len(suffix)
    /\ SubSeq(t, Len(t) - Len(suffix) + 1, Len(t)) = suffix

\* the outcome of a call: a value, or the exception it raised
Value(v) == [raised |-> FALSE, error |-> "", value |-> v]
Raises(error) == [raised |-> TRUE, error |-> error, value |-> << >>]

\* extract_text(file) of utils/parser.py
ParserExtractText(file) ==
    LET filename == Lower(file.filename)
        data == file.data
    IN  IF EndsWith(filename, <<".","p","d","f">>)
        THEN IF data.pdf_ok
             THEN Value(Strip(JoinWith(SelectSeq(data.pages, LAMBDA pt : pt # << >>),
                                          <<"\n">>)))
             ELSE Value(data.raw)
        ELSE IF EndsWith(filename, <<".","d","o","c","x">>) \/ EndsWith(filename, <<".","d","o","c">>)
        THEN IF data.docx_ok
             THEN Value(Strip(JoinWith(
                      SelectSeq(data.paragraphs, LAMBDA pt : Strip(pt) # << >>), <<"\n">>)))
             ELSE Value(data.raw)
        ELSE Value(data.raw)

\* lines 112-135 of safe_extract_text: the handler's own parsing
OwnExtractText(file) ==
    LET filename == Lower(file.filename)
        data == file.data
    IN  IF data.empty THEN << >>
        ELSE IF EndsWith(filename, <<".","p","d","f">>) \/ data.magic
        THEN IF data.pdf_ok THEN Strip(JoinWith(data.pages, <<"\n">>)) ELSE << >>
        ELSE IF EndsWith(filename, <<".","d","o","c","x">>)
        THEN IF data.docx_ok
             THEN Strip(JoinWith(SelectSeq(data.paragraphs, LAMBDA pt : Strip(pt) # << >>),
                                 <<"\n">>))
             ELSE << >>
        ELSE Strip(data.raw)

\* safe_extract_text(file_storage); a FileStorage without a filename is falsy
SafeExtractText(file, parser_ok) ==
    IF file.filename = << >> THEN << >>
    ELSE LET ext == IF parser_ok THEN ParserExtractText(file) ELSE Raises("ImportError") IN
         IF ~ext.raised /\ Strip(ext.value) # << >> THEN ext.value
         ELSE OwnExtractText(file)

(* the uploaded files *)

PdfRaw == <<"%","P","D","F","-","1",".","4"," ","o","b","j">>
UploadData == {
    EmptyData,
    FileData(FALSE, TRUE, TRUE, <<<<"P","y","t","h","o","n"," ","d","e","v","\n">>, << >>, <<" ","S","Q","L"," ","\n">>>>, FALSE, << >>, PdfRaw),
    FileData(FALSE, TRUE, TRUE, <<<< >>, <<"\n">>>>, FALSE, << >>, PdfRaw),
    FileData(FALSE, TRUE, FALSE, << >>, FALSE, << >>, PdfRaw),
    FileData(FALSE, FALSE, FALSE, << >>, TRUE, <<<<"J","a","v","a">>, <<" "," ">>, <<" ","S","Q","L">>>>, <<"P","K"," ","w","."," ","x","m","l">>),
    FileData(FALSE, FALSE, FALSE, << >>, FALSE, << >>, <<" ","p","y","t","h","o","n",","," ","c","+","+"," ","\n">>),
    FileData(FALSE, FALSE, FALSE, << >>, FALSE, << >>, <<" ","\n">>) }
Uploads ==
    {[filename |-> f, data |-> d] :
        f \in {<< >>, <<"c","v",".","p","d","f">>, <<"C","V",".","P","D","F">>, <<"c","v",".","d","o","c","x">>, <<"c","v",".","d","o","c">>, <<"c","v",".","t","x","t">>, <<"c","v">>},
        d \in UploadData}

ExtractInit ==
    /\ x_file \in Uploads
    /\ x_parser_ok \in BOOLEAN
    /\ x_text = NoResult

ExtractIdle ==
    /\ x_file = NoFile
    /\ x_parser_ok = TRUE
    /\ x_text = Idle

\* one call safe_extract_text(x_file)
SafeExtract ==
    /\ x_text = NoResult
    /\ x_text' = [status |-> "done", text |-> SafeExtractText(x_file, x_parser_ok)]
    /\ UNCHANGED <<x_file, x_parser_ok>>
    /\ UNCHANGED <<atsVars, matchVars, nlpVars, dictVars, handlerVars, downloadVars>>

---------------------------------------------------------------------------
(* The reply of the external model and json.loads *)

\* a reply is a sequence of tokens: punctuation, numbers, string literals, null, and
\* words of prose
Tok(t, n, str) == [t |-> t, n |-> n, s |-> str]
P(t) == Tok(t, 0, "")
N(n) == Tok("num", n, "")
Str(str) == Tok("str", 0, str)
W(str) == Tok("word", 0, str)

\* the values json.loads returns; an object is the sequence of its members
JNum(n) == [k |-> "num", n |-> n, s |-> "", items |-> << >>]
JStr(str) == [k |-> "str", n |-> 0, s |-> str, items |-> << >>]
JNull == [k |-> "null", n |-> 0, s |-> "", items |-> << >>]
JList(items) == [k |-> "list", n |-> 0, s |-> "", items |-> items]
JDict(members) == [k |-> "dict", n |-> 0, s |-> "", items |-> members]

Parsed(val, next) == [ok |-> TRUE, val |-> val, next |-> next]
ParseFails == [ok |-> FALSE, val |-> JNull, next |-> 0]
TokAt(toks, i) == IF i \in 1..Len(toks) THEN toks[i].t ELSE "end"

\* the JSON value that starts at token i, and the position after it
RECURSIVE ParseValue(_, _)
RECURSIVE ParseItems(_, _, _)
RECURSIVE ParseMembers(_, _, _)
ParseValue(toks, i) ==
    LET t == TokAt(toks, i) IN
    IF t = "num" THEN Parsed(JNum(toks[i].n), i + 1)
    ELSE IF t = "str" THEN Parsed(JStr(toks[i].s), i + 1)
    ELSE IF t = "null" THEN Parsed(JNull, i + 1)
    ELSE IF t = "["
    THEN IF TokAt(toks, i + 1) = "]" THEN Parsed(JList(<< >>), i + 2)
         ELSE ParseItems(toks, i + 1, << >>)
    ELSE IF t = "{"
    THEN IF TokAt(toks, i + 1) = "}" THEN Parsed(JDict(<< >>), i + 2)
         ELSE ParseMembers(toks, i + 1, << >>)
    ELSE ParseFails

ParseItems(toks, i, acc) ==
    LET v == ParseValue(toks, i) IN
    IF ~v.ok THEN ParseFails
    ELSE IF TokAt(toks, v.next) = ","
    THEN ParseItems(toks, v.next + 1, Append(acc, v.val))
    ELSE IF TokAt(toks, v.next) = "]"
    THEN Parsed(JList(Append(acc, v.val)), v.next + 1)
    ELSE ParseFails

ParseMembers(toks, i, acc) ==
    IF TokAt(toks, i) # "str" \/ TokAt(toks, i + 1) # ":" THEN ParseFails
    ELSE LET v == ParseValue(toks, i + 2)
             more == Append(acc, [key |-> toks[i].s, val |-> v.val])
         IN  IF ~v.ok THEN ParseFails
             ELSE IF TokAt(toks, v.next) = "," THEN ParseMembers(toks, v.next + 1, more)
             ELSE IF TokAt(toks, v.next) = "}" THEN Parsed(JDict(more), v.next + 1)
             ELSE ParseFails

\* json.loads(toks): ok is FALSE when it raises
JsonLoads(toks) ==
    LET v == ParseValue(toks, 1) IN
    IF v.ok /\ v.next = Len(toks) + 1 THEN v ELSE ParseFails

\* re.search(r"(\[.*\])", text, re.S) and re.search(r"(\{.*\})", text, re.S): from the
\* first opening bracket to the last closing one; then m.group(1) if m else text
SearchGroup(toks, open, close) ==
    LET opens == {i \in 1..Len(toks) : toks[i].t = open}
        first == CHOOSE i \in opens : \A j \in opens : i <= j
        closes == {i \in 1..Len(toks) : toks[i].t = close /\ i > first}
        last == CHOOSE i \in closes : \A j \in closes : i >= j
    IN  IF opens = {} \/ closes = {} THEN toks ELSE SubSeq(toks, first, last)

\* d.get(key, default): the last member of that name counts
DictGet(d, key, default) ==
    LET at == {i \in 1..Len(d.items) : d.items[i].key = key} IN
    IF at = {} THEN default
    ELSE d.items[CHOOSE i \in at : \A j \in at : i >= j].val

\* ask_gemini_json(prompt): None when the module is not configured or the call
\* raises, else response.text
NoneReply == [kind |-> "None", toks |-> << >>]
TextReply(toks) == [kind |-> "text", toks |-> toks]
GeminiRaises == [kind |-> "raises", toks |-> << >>]
AskGeminiJson(configured, outcome) ==
    IF ~configured THEN NoneReply
    ELSE IF outcome.kind = "raises" THEN NoneReply
    ELSE outcome

---------------------------------------------------------------------------
(* app.py: ats_score_local *)

\* sorted(KNOWN_SKILLS)
KnownSorted == <<
    <<"a","w","s">>, <<"a","z","u","r","e">>, <<"c","+","+">>, <<"c","l","o","u","d">>, <<"c","s","s">>, <<"d","a","t","a"," ","a","n","a","l","y","s","i","s">>, <<"d","e","e","p"," ","l","e","a","r","n","i","n","g">>,
    <<"d","j","a","n","g","o">>, <<"d","o","c","k","e","r">>, <<"e","x","c","e","l">>, <<"f","l","a","s","k">>, <<"g","i","t">>, <<"h","t","m","l">>, <<"j","a","v","a">>, <<"j","a","v","a","s","c","r","i","p","t">>,
    <<"k","u","b","e","r","n","e","t","e","s">>, <<"m","a","c","h","i","n","e"," ","l","e","a","r","n","i","n","g">>, <<"n","l","p">>, <<"n","o","d","e",".","j","s">>, <<"p","o","w","e","r"," ","b","i">>, <<"p","y","t","h","o","n">>,
    <<"r","e","a","c","t">>, <<"s","q","l">>, <<"t","a","b","l","e","a","u">> >>

\* sorted(list(skills))
SortedSkills(skills) == SelectSeq(KnownSorted, LAMBDA k : k \in skills)

\* ats_score_local(resume_text, job_desc) of app.py
AppAtsScoreLocal(resume_text, job_desc) ==
    LET resume_skills == DictExtractSkills(resume_text)
        job_skills == DictExtractSkills(job_desc)
        matched == resume_skills \cap job_skills
        missing == job_skills \ resume_skills
        score == IF job_skills # {}
                 THEN (Cardinality(matched) * 100) \div Cardinality(job_skills)
                 ELSE 0
    IN  [k |-> "local",
         ats_score |-> score,
         matched_skills |-> SortedSkills(matched),
         missing_skills |-> SortedSkills(missing),
         suggestions |-> <<"A","d","d"," ","m","i","s","s","i","n","g"," ","s","k","i","l","l","s"," ","t","o"," ","i","m","p","r","o","v","e"," ","y","o","u","r"," ","A","T","S"," ","s","c","o","r","e","."," ","M","i","s","s","i","n","g",":"," ">> \o
                         (IF missing # {} THEN JoinWith(SortedSkills(missing), <<","," ">>)
                          ELSE <<"N","o","n","e">>)]

---------------------------------------------------------------------------
(* app.py: the /match and /score handlers *)

\* the strings the replies give as scores, in Python's order
StringRank(str) ==
    LET ordered == <<"70", "90", "high">> IN
    IF \E i \in 1..Len(ordered) : ordered[i] = str
    THEN CHOOSE i \in 1..Len(ordered) : ordered[i] = str
    ELSE 0

\* sorted(matches, key=lambda x: x.get("score", 0), reverse=True), for scores that
\* are numbers, strings, null or objects
SortedMatches(matches) ==
    IF matches.k \in {"num", "null"} THEN Raises("TypeError")
    ELSE IF matches.items = << >> \/ (matches.k = "str" /\ matches.s = "")
    THEN Value(JList(<< >>))
    ELSE IF matches.k \in {"str", "dict"} THEN Raises("AttributeError")
    ELSE LET n == Len(matches.items)
             keys == [i \in 1..n |-> DictGet(matches.items[i], "score", JNum(0))]
             ranked == [i \in 1..n |->
                          [score |-> IF keys[i].k = "num" THEN keys[i].n
                                     ELSE StringRank(keys[i].s),
                           item |-> matches.items[i]]]
             sorted == SortByScoreDesc(ranked)
         IN  IF \E i \in 1..n : matches.items[i].k # "dict" THEN Raises("AttributeError")
             ELSE IF /\ n >= 2
                     /\ \E i \in 1..n : keys[i].k # "num"
                     /\ \E i \in 1..n : keys[i].k # "str"
             THEN Raises("TypeError")
             ELSE Value(JList([i \in 1..n |-> sorted[i].item]))

\* the matches of /match: parsed from the bracketed part of the reply, [] when
\* anything in the try block raises
ParseMatches(gem_text) ==
    IF gem_text.kind = "None" THEN JList(<< >>)
    ELSE LET parsed == JsonLoads(SearchGroup(gem_text.toks, "[", "]")) IN
         IF parsed.ok THEN parsed.val ELSE JList(<< >>)

\* the result of /score: parsed from the braced part of the reply, the local score
\* when anything in the try block raises
ParseResult(gem_text, resume_text, job_desc) ==
    IF gem_text.kind = "None" THEN AppAtsScoreLocal(resume_text, job_desc)
    ELSE LET parsed == JsonLoads(SearchGroup(gem_text.toks, "{", "}")) IN
         IF parsed.ok THEN parsed.val ELSE AppAtsScoreLocal(resume_text, job_desc)

\* render_template(template, name=value) and render_template(template)
Rendered(template, value) ==
    [status |-> "rendered", template |-> template, passed |-> TRUE, value |-> value,
     error |-> ""]
RenderedBare(template) ==
    [status |-> "rendered", template |-> template, passed |-> FALSE, value |-> JNull,
     error |-> ""]
\* the handler ends with an exception
Unhandled(error) ==
    [status |-> "exception", template |-> "", passed |-> FALSE, value |-> JNull,
     error |-> error]

\* the locals of a handler and the calls it made, in order
Handling(resume_text, job_desc, gem_text, calls) ==
    [status |-> "done", resume_text |-> resume_text, job_desc |-> job_desc,
     gem_text |-> gem_text, calls |-> calls]
Handled(h, r) == [handling |-> h, response |-> r]

\* lines 212-215 and 243-247: the upload replaces the pasted text
ReadResume(req, parser_ok) ==
    IF req.upload.filename # << >>
    THEN [text |-> SafeExtractText(req.upload, parser_ok), calls |-> <<"safe_extract_text">>]
    ELSE [text |-> Strip(req.resume_text), calls |-> << >>]

\* job_matching(): every way the handling of req can end
JobMatchingOutcomes(req, configured, parser_ok, outcomes) ==
    IF req.method # "POST"
    THEN {Handled(Handling(NoneText, NoneText, NoneReply, << >>),
                  Rendered("match.html", JNull))}
    ELSE LET read == ReadResume(req, parser_ok) IN
         IF read.text = << >>
         THEN {Handled(Handling(read.text, NoneText, NoneReply, read.calls \o <<"flash">>),
                       RenderedBare("match.html"))}
         ELSE IF ~configured
         THEN {Handled(Handling(read.text, NoneText, NoneReply, read.calls),
                       Rendered("match.html", SortedMatches(JList(<< >>)).value))}
         ELSE {LET gem_text == AskGeminiJson(configured, o)
                   sorted == SortedMatches(ParseMatches(gem_text))
               IN  Handled(Handling(read.text, NoneText, gem_text,
                                    read.calls \o <<"ask_gemini_json">>),
                           IF sorted.raised THEN Unhandled(sorted.error)
                           ELSE Rendered("match.html", sorted.value))
               : o \in outcomes}

\* line 248 with "and" in place of "or"
InsufficientInput_And(resume_text, job_desc) == resume_text = << >> /\ job_desc = << >>

\* line 248: not resume_text or not job_desc
InsufficientInput(resume_text, job_desc) == resume_text = << >> \/ job_desc = << >>

\* ats_scoring(): every way the handling of req can end
AtsScoringOutcomes(req, configured, parser_ok, outcomes) ==
    IF req.method # "POST"
    THEN {Handled(Handling(NoneText, NoneText, NoneReply, << >>),
                  Rendered("score.html", JNull))}
    ELSE LET read == ReadResume(req, parser_ok)
             job_desc == Strip(req.job_desc)
         IN
         IF InsufficientInput(read.text, job_desc)
         THEN {Handled(Handling(read.text, job_desc, NoneReply, read.calls \o <<"flash">>),
                       RenderedBare("score.html"))}
         ELSE IF ~configured
         THEN {Handled(Handling(read.text, job_desc, NoneReply,
                                read.calls \o <<"ats_score_local">>),
                       Rendered("score.html", AppAtsScoreLocal(read.text, job_desc)))}
         ELSE {LET gem_text == AskGeminiJson(configured, o)
                   result == ParseResult(gem_text, read.text, job_desc)
               IN  Handled(Handling(read.text, job_desc, gem_text,
                                    read.calls \o <<"ask_gemini_json">> \o
                                    (IF result.k = "local" THEN <<"ats_score_local">>
                                     ELSE << >>)),
                           Rendered("score.html", result))
               : o \in outcomes}

(* the requests and the replies of the external model *)

Member(key, val) == <<Str(key), P(":")>> \o val
Obj(members) == <<P("{")>> \o JoinWith(members, <<P(",")>>) \o <<P("}")>>
Arr(items) == <<P("[")>> \o JoinWith(items, <<P(",")>>) \o <<P("]")>>

GeminiReplies == {
    <<W("Sorry,"), W("unavailable")>>,
    <<N(85)>>,
    <<P("null")>>,
    Obj(<<Member("error", <<Str("quota")>>)>>),
    Obj(<<Member("ats_score", <<N(85)>>),
          Member("matched_skills", Arr(<<<<Str("python")>>>>)),
          Member("missing_skills", Arr(<< >>))>>),
    Arr(<<Obj(<<Member("title", <<Str("a")>>), Member("score", <<N(70)>>)>>), Obj(<<Member("title", <<Str("b")>>), Member("score", <<N(90)>>)>>),
          Obj(<<Member("title", <<Str("c")>>)>>), Obj(<<Member("title", <<Str("d")>>), Member("score", <<N(70)>>)>>)>>),
    <<W("Here:")>> \o Arr(<<Obj(<<Member("title", <<Str("a")>>), Member("score", <<N(90)>>)>>)>>) \o <<W("Done.")>>,
    <<W("Here:")>> \o Obj(<<Member("ats_score", <<N(40)>>)>>) \o <<W("Done.")>>,
    Arr(<<<<Str("python")>>, <<Str("sql")>>>>),
    Arr(<<Obj(<<Member("score", <<Str("high")>>)>>), Obj(<<Member("score", <<N(70)>>)>>)>>),
    Arr(<<Obj(<<Member("score", <<Str("70")>>)>>),
          Obj(<<Member("score", <<Str("90")>>)>>)>>),
    Arr(<<Obj(<<Member("score", <<P("null")>>)>>)>>),
    Arr(<< >>),
    <<P("["), P("{"), Str("title"), P(":"), Str("a"), P(",")>> }
GeminiOutcomes == {GeminiRaises} \cup {TextReply(toks) : toks \in GeminiReplies}

PastedResumes == {<< >>, <<" ","\n">>, <<" ","P","y","t","h","o","n"," ","a","n","d"," ","S","Q","L"," ">>}
JobDescs == {<< >>, <<" "," ">>, <<"p","y","t","h","o","n",","," ","a","w","s",","," ","s","q","l","\n">>}
RequestUploads ==
    {NoFile} \cup
    {u \in Uploads :
        /\ u.filename \in {<<"c","v",".","p","d","f">>, <<"c","v",".","t","x","t">>}
        /\ ~u.data.empty
        /\ u.data.pdf_ok \/ ~u.data.magic}
Request(route, method, resume_text, job_desc, upload) ==
    [route |-> route, method |-> method, resume_text |-> resume_text,
     job_desc |-> job_desc, upload |-> upload]
Requests ==
    {Request(route, "GET", << >>, << >>, NoFile) : route \in {"/match", "/score"}} \cup
    {Request("/match", "POST", r, << >>, u) : r \in PastedResumes, u \in RequestUploads} \cup
    {Request("/score", "POST", r, j, u) :
        r \in PastedResumes, j \in JobDescs, u \in RequestUploads}

\* a request arrives; the extraction variables hold only whether utils.parser imports
HandlerInit ==
    /\ genai \in BOOLEAN
    /\ request \in Requests
    /\ handling = NoResult
    /\ http_response = NoResult
    /\ x_file = NoFile
    /\ x_parser_ok \in BOOLEAN
    /\ x_text = Idle

HandlerIdle ==
    /\ genai = FALSE
    /\ request = Request("", "", << >>, << >>, NoFile)
    /\ handling = Idle
    /\ http_response = Idle

\* one request to /match
JobMatching ==
    /\ handling = NoResult
    /\ request.route = "/match"
    /\ \E h \in JobMatchingOutcomes(request, genai, x_parser_ok, GeminiOutcomes) :
          /\ handling' = h.handling
          /\ http_response' = h.response
    /\ UNCHANGED <<genai, request>>
    /\ UNCHANGED <<atsVars, matchVars, nlpVars, dictVars, extractVars, downloadVars>>

\* one request to /score
AtsScoring ==
    /\ handling = NoResult
    /\ request.route = "/score"
    /\ \E h \in AtsScoringOutcomes(request, genai, x_parser_ok, GeminiOutcomes) :
          /\ handling' = h.handling
          /\ http_response' = h.response
    /\ UNCHANGED <<genai, request>>
    /\ UNCHANGED <<atsVars, matchVars, nlpVars, dictVars, extractVars, downloadVars>>

---------------------------------------------------------------------------
(* app.py: the /download_pdf and /download_docx handlers *)

\* str.capitalize()
Capitalize(t) ==
    IF t = << >> THEN t
    ELSE LET at == {i \in 1..Len(LowerSeq) : LowerSeq[i] = t[1]} IN
         <<IF at = {} THEN t[1] ELSE UpperSeq[CHOOSE i \in at : TRUE]>>
             \o Lower(Tail(t))

\* content.split("\n")
SplitLines(t) ==
    LET breaks == SelectSeq(Indices(Len(t)), LAMBDA i : t[i] = "\n")
        bounds == <<0>> \o breaks \o <<Len(t) + 1>>
    IN  [k \in 1..(Len(breaks) + 1) |-> SubSeq(t, bounds[k] + 1, bounds[k + 1] - 1)]

\* os.path.join(tempfile.gettempdir(), "resume.pdf") and (..., "resume.docx"): the
\* same path for every request of a route
TempPath(route) == IF route = "/download_pdf" THEN "resume.pdf" ELSE "resume.docx"

\* the file a handler generates from data = request.args.to_dict(): what it draws
\* (download_pdf; the y coordinates follow from the order) or adds (download_docx),
\* in order
DownloadContent(route, data) ==
    LET pdf == route = "/download_pdf"
        arg(key) == DictGet(data, key, << >>)
        contact == <<"E","m","a","i","l",":"," ">> \o arg(<<"e","m","a","i","l">>) \o <<" ","|"," ","P","h","o","n","e",":"," ">> \o arg(<<"p","h","o","n","e">>)
                       \o <<" ","|"," ","L","i","n","k","e","d","I","n",":"," ">> \o arg(<<"l","i","n","k","e","d","i","n">>)
        Line(style, text) == [style |-> style, text |-> text]
        Section(m) ==
            IF m.key \in {<<"n","a","m","e">>, <<"e","m","a","i","l">>, <<"p","h","o","n","e">>, <<"l","i","n","k","e","d","i","n">>} \/ Strip(m.val) = << >>
            THEN << >>
            ELSE IF pdf
            THEN <<Line("Helvetica-Bold 12 at 50", Capitalize(m.key))>> \o
                 [k \in 1..Len(SplitLines(m.val)) |->
                     Line("Helvetica 10 at 70", Strip(SplitLines(m.val)[k]))]
            ELSE <<Line("heading 1", Capitalize(m.key)), Line("paragraph", m.val)>>
    IN  [path |-> TempPath(route),
         lines |-> <<Line(IF pdf THEN "Helvetica-Bold 16 at 50" ELSE "heading 0",
                          DictGet(data, <<"n","a","m","e">>, <<"Y","o","u","r"," ","N","a","m","e">>)),
                     Line(IF pdf THEN "Helvetica 10 at 50" ELSE "paragraph", contact)>>
                   \o JoinWith([k \in 1..Len(data.items) |-> Section(data.items[k])],
                               << >>)]

(* the requests that are handled at the same time *)

MaxRequests == 2
Arg(key, val) == [key |-> key, val |-> val]
ResumeArgs == {
    [items |-> <<Arg(<<"n","a","m","e">>, <<"A","n","n">>), Arg(<<"e","m","a","i","l">>, <<"a","@","x",".","i","o">>),
                 Arg(<<"s","k","i","l","l","s">>, <<"P","y","t","h","o","n","\n"," ","S","Q","L"," ">>)>>],
    [items |-> <<Arg(<<"n","a","m","e">>, <<"B","o","b">>), Arg(<<"s","k","i","l","l","s">>, <<" ","\n">>),
                 Arg(<<"s","u","m","m","a","r","y">>, <<"D","e","v">>)>>],
    [items |-> <<Arg(<<"e","x","t","r","a","s">>, <<"x">>)>>],
    [items |-> <<Arg(<<"n","a","m","e">>, <<"Y","o","u","r"," ","N","a","m","e">>), Arg(<<"e","x","t","r","a","s">>, <<"x">>)>>] }

\* no file: nothing has been written to the path, nothing has been delivered
NoContent == [path |-> "", lines |-> << >>]

DownloadInit ==
    /\ dl_request \in [1..MaxRequests ->
                          [route : {"/download_pdf", "/download_docx"}, args : ResumeArgs]]
    /\ dl_pc = [i \in 1..MaxRequests |-> "start"]
    /\ tmp_files = [p \in {"resume.pdf", "resume.docx"} |-> NoContent]
    /\ dl_sent = [i \in 1..MaxRequests |-> NoContent]
    /\ AtsIdle /\ MatchIdle /\ NlpIdle /\ DictIdle /\ ExtractIdle /\ HandlerIdle

DownloadIdle ==
    /\ dl_request = << >>
    /\ dl_pc = << >>
    /\ tmp_files = << >>
    /\ dl_sent = << >>

\* request i: lines 166-187 (download_pdf, to c.save()) or 193-204 (download_docx,
\* to doc.save(doc_path))
WriteFile(i) ==
    /\ dl_pc[i] = "start"
    /\ tmp_files' =
          [tmp_files EXCEPT ![TempPath(dl_request[i].route)] =
              DownloadContent(dl_request[i].route, dl_request[i].args)]
    /\ dl_pc' = [dl_pc EXCEPT ![i] = "written"]
    /\ UNCHANGED <<dl_request, dl_sent>>
    /\ UNCHANGED <<atsVars, matchVars, nlpVars, dictVars, extractVars, handlerVars>>

\* request i: send_file(pdf_path, ...) or send_file(doc_path, ...), which delivers
\* what the file at that path holds
SendFile(i) ==
    /\ dl_pc[i] = "written"
    /\ dl_sent' = [dl_sent EXCEPT ![i] = tmp_files[TempPath(dl_request[i].route)]]
    /\ dl_pc' = [dl_pc EXCEPT ![i] = "sent"]
    /\ UNCHANGED <<dl_request, tmp_files>>
    /\ UNCHANGED <<atsVars, matchVars, nlpVars, dictVars, extractVars, handlerVars>>

---------------------------------------------------------------------------
(* utils/scorer.py as a whole *)

ScorerInit ==
    /\ (AtsInit /\ MatchIdle) \/ (MatchInit /\ AtsIdle)
    /\ NlpIdle /\ DictIdle /\ ExtractIdle /\ HandlerIdle /\ DownloadIdle
ScorerNext == AtsCall \/ AtsAppendMissing \/ MatchCall
SpecScorer == ScorerInit /\ [][ScorerNext]_vars

---------------------------------------------------------------------------
(* utils/nlp.py as a whole *)

NlpOnlyInit ==
    /\ NlpInit /\ AtsIdle /\ MatchIdle /\ DictIdle /\ ExtractIdle /\ HandlerIdle
    /\ DownloadIdle
SpecNlp == NlpOnlyInit /\ [][NlpNext]_vars

---------------------------------------------------------------------------
(* app.py as a whole *)

AppInit ==
    /\ \/ DictInit /\ ExtractIdle /\ HandlerIdle
       \/ ExtractInit /\ DictIdle /\ HandlerIdle
       \/ HandlerInit /\ DictIdle
    /\ AtsIdle /\ MatchIdle /\ NlpIdle /\ DownloadIdle
AppNext == DictExtract \/ SafeExtract \/ JobMatching \/ AtsScoring
SpecApp == AppInit /\ [][AppNext]_vars

---------------------------------------------------------------------------
(* The download handlers, run at the same time *)

DownloadNext == \E i \in 1..MaxRequests : WriteFile(i) \/ SendFile(i)
SpecDownload == DownloadInit /\ [][DownloadNext]_vars

---------------------------------------------------------------------------
(* Properties of utils/scorer.py *)

\* the score 100, in hundredths of a percent
MaxScore == CosFull \div 10

AtsDone == ats_result.status = "done"
MatchDone == m_results.status = "done"

\* the candidate keywords of the job description, and those present in the resume
AtsCandidates == Range(JdUnique(ats_job))
AtsPresent == {k \in AtsCandidates : IsSubstring(k, Lower(OrEmpty(ats_resume)))}
AtsReturned ==
    Range(ats_result.matched_keywords) \cup Range(ats_result.missing_keywords)

\* C1, as claimed: after every call of ats_score_local the returned matched_keywords
\* and missing_keywords are disjoint and their union is the full set of deduplicated
\* candidate keywords of job_desc, for any number of candidate keywords.
C1_PartitionOfAllCandidates ==
    AtsDone =>
        /\ Range(ats_result.matched_keywords) \cap Range(ats_result.missing_keywords) = {}
        /\ AtsReturned = AtsCandidates

\* C1, amended: the returned matched_keywords and missing_keywords are disjoint, hold
\* candidate keywords only, matched ones present in and missing ones absent from the
\* lowercased resume, and their union is the full candidate set exactly when at most
\* 50 candidates are present and at most 50 are absent (each list is cut to 50).
C1_PartitionUpToFifty ==
    AtsDone =>
        /\ Range(ats_result.matched_keywords) \cap Range(ats_result.missing_keywords) = {}
        /\ Range(ats_result.matched_keywords) \subseteq AtsPresent
        /\ Range(ats_result.missing_keywords) \subseteq AtsCandidates \ AtsPresent
        /\ (AtsReturned = AtsCandidates) <=>
               /\ Cardinality(AtsPresent) <= MaxReturned
               /\ Cardinality(AtsCandidates \ AtsPresent) <= MaxReturned

\* C1 witness: a job description of more than 50 candidates, some present and some
\* absent, all of them returned
C1_Witness ==
    /\ AtsDone
    /\ Cardinality(AtsCandidates) > MaxReturned
    /\ Len(ats_result.matched_keywords) >= 2
    /\ Len(ats_result.missing_keywords) >= 2
    /\ AtsReturned = AtsCandidates

\* C2: every score returned by the scorers lies in [0, 100]: the ats_score of
\* ats_score_local and the score of every result of score_against_jobs, also when
\* vectorization fails and when the candidate keyword set is empty.
C2_ScoresWithinBounds ==
    /\ AtsDone => ats_result.ats_score >= 0 /\ ats_result.ats_score <= MaxScore
    /\ MatchDone => \A i \in 1..Len(m_results.list) :
           m_results.list[i].score >= 0 /\ m_results.list[i].score <= MaxScore

\* C2 witness: a score returned although vectorization failed and the job
\* description has no candidate keyword
C2_Witness ==
    /\ AtsDone
    /\ ats_resume # NoneText
    /\ FitFails(<<ats_resume, ats_job>>)
    /\ AtsCandidates = {}
    /\ ats_result.ats_score = 0

\* the resume was scored, every returned missing keyword appended, and scored again
AtsRescored == AtsDone /\ ats_prev.status = "done"

\* C3, as claimed: if R2 is R1 with every keyword of missing_keywords appended, every
\* keyword of matched_keywords for R1 is in matched_keywords for R2, for any number
\* of candidate keywords.
C3_MatchedKept ==
    AtsRescored =>
        Range(ats_prev.matched_keywords) \subseteq Range(ats_result.matched_keywords)

\* C3, amended: every keyword of matched_keywords for R1 that is among the first 50
\* distinct candidate keywords of J (every one, when J has at most 50) is in
\* matched_keywords for R2.
C3_MatchedKeptAmongFirstFifty ==
    AtsRescored =>
        Range(ats_prev.matched_keywords) \cap Range(Take(JdUnique(ats_job), MaxReturned))
            \subseteq Range(ats_result.matched_keywords)

\* C3 witness: a rescoring in which keywords were matched before and keywords were
\* appended
C3_Witness ==
    /\ AtsRescored
    /\ Len(ats_prev.matched_keywords) >= 1
    /\ Len(ats_prev.missing_keywords) >= 2
    /\ Len(ats_result.matched_keywords) > Len(ats_prev.matched_keywords)

\* C4: score_against_jobs returns exactly min(top_n, n) results, in non-increasing
\* score order, profiles of equal score in catalog order, and no profile outside the
\* result has a higher score than one inside it.
C4_TopNOrdered ==
    MatchDone =>
        LET L == m_results.list
            inside == {L[i].title : i \in 1..Len(L)}
        IN  /\ Len(L) = Min(m_top_n, Len(jobs_db))
            /\ \A i \in 1..Len(L) : L[i] = m_scored[L[i].title]
            /\ \A i \in 1..(Len(L) - 1) :
                   \/ L[i].score > L[i + 1].score
                   \/ L[i].score = L[i + 1].score /\ L[i].title < L[i + 1].title
            /\ \A j \in 1..Len(m_scored) : j \notin inside =>
                   \A i \in 1..Len(L) : m_scored[j].score <= L[i].score

\* C4 witness: a catalog of 10 profiles with three different scores and ties, of
\* which 6 are returned
C4_Witness ==
    /\ MatchDone
    /\ Len(jobs_db) = 10
    /\ m_top_n = DefaultTopN
    /\ Len(m_results.list) = 6
    /\ Cardinality({m_scored[j].score : j \in 1..Len(m_scored)}) = 3
    /\ m_scored[1].score < m_scored[10].score

\* C10: when the joint vectorization fails, score_against_jobs still returns the
\* catalog's results, every score 0, and each profile's matched list is its keywords
\* whose lowercase form is a substring of the lowercased resume, missing the rest.
C10_FitFailureKeepsPresence ==
    (MatchDone /\ m_fit_failed) =>
        LET L == m_results.list
            resume_lower == Lower(OrEmpty(m_resume))
        IN  /\ Len(L) = Min(m_top_n, Len(jobs_db))
            /\ \A i \in 1..Len(L) :
                 LET kws == jobs_db[L[i].title].keywords IN
                   /\ L[i].score = 0
                   /\ L[i].matched =
                        SelectSeq(kws, LAMBDA k : IsSubstring(Lower(k), resume_lower))
                   /\ L[i].missing =
                        SelectSeq(kws, LAMBDA k : k \notin Range(L[i].matched))
                   /\ Range(L[i].matched) \cup Range(L[i].missing) = Range(kws)

\* C10 witness: the vectorization failed on a resume that is text, and a returned
\* profile has a matched and a missing keyword
C10_Witness ==
    /\ MatchDone
    /\ m_fit_failed
    /\ m_resume # NoneText
    /\ \E i \in 1..Len(m_results.list) :
           Len(m_results.list[i].matched) >= 1 /\ Len(m_results.list[i].missing) >= 1

---------------------------------------------------------------------------
(* Properties of utils/nlp.py *)

NlpDone == nlp_skills.status = "done"

\* C5: the list extract_skills_from_text returns, through the model or through the
\* fallback extractor, has no duplicate, no empty string, no token shorter than 2
\* characters, and at most max_keywords entries.
C5_SkillsWellFormed ==
    NlpDone =>
        LET L == nlp_skills.list IN
        /\ \A i, j \in 1..Len(L) : i # j => L[i] # L[j]
        /\ \A i \in 1..Len(L) : Len(L[i]) >= 2
        /\ Len(L) <= nlp_max

\* C5 witness: without a token, the fallback extractor returns the one-letter skill
\* "c" for a text that has the letter c in a word
C5_Witness ==
    /\ NlpDone
    /\ ~hf_api_token
    /\ nlp_text = <<"M","u","s","i","c"," ","a","n","d"," ","a","r","t">>
    /\ \E i \in 1..Len(nlp_skills.list) : nlp_skills.list[i] = <<"c">>

---------------------------------------------------------------------------
(* Properties of app.py *)

DictDone == d_found.status = "done"
ExtractDone == x_text.status = "done"

\* skill occurs in text between two positions that are each an end of the text or next
\* to a character that is not a letter, digit or underscore
OccursDelimited(skill, text) ==
    \E i \in 0..(Len(text) - Len(skill)) :
        /\ SubSeq(text, i + 1, i + Len(skill)) = skill
        /\ i = 0 \/ text[i] \notin WordChars
        /\ i + Len(skill) = Len(text) \/ text[i + Len(skill) + 1] \notin WordChars

\* C6: the dictionary matcher returns exactly the phrases of KNOWN_SKILLS that occur in
\* the lowercased text as a boundary-delimited occurrence, also the phrases containing
\* '+' or '.'.
C6_ExactlyDelimitedPhrases ==
    DictDone =>
        d_found.skills =
            {skill \in KNOWN_SKILLS : OccursDelimited(skill, Lower(OrEmpty(d_text)))}

\* C6 witness: "c++" followed by a space is not reported
C6_Witness ==
    /\ DictDone
    /\ d_text = <<"c","+","+"," ","d","e","v","e","l","o","p","e","r">>
    /\ d_found.skills = {}

\* C8: for a file whose name ends in .pdf or whose bytes begin with %PDF, whenever the
\* PDF parser succeeds, the text returned is the trimmed newline-joined text of the
\* pages (with or without the pages that have no text), not the raw decoding.
C8_PdfTextFromPages ==
    (/\ ExtractDone
     /\ x_file.filename # << >>
     /\ EndsWith(Lower(x_file.filename), <<".","p","d","f">>) \/ x_file.data.magic
     /\ x_file.data.pdf_ok)
    => x_text.text \in
         {Strip(JoinWith(x_file.data.pages, <<"\n">>)),
          Strip(JoinWith(SelectSeq(x_file.data.pages, LAMBDA pt : pt # << >>), <<"\n">>))}

\* C8 witness: a PDF that is not named .pdf is returned as its raw decoding
C8_Witness ==
    /\ ExtractDone
    /\ x_parser_ok
    /\ x_file.filename = <<"c","v",".","t","x","t">>
    /\ x_file.data.magic /\ x_file.data.pdf_ok
    /\ x_file.data.pages = <<<<"P","y","t","h","o","n"," ","d","e","v","\n">>, << >>, <<" ","S","Q","L"," ","\n">>>>
    /\ x_text.text = x_file.data.raw

Handled_ == handling.status = "done"
Posted(route) == Handled_ /\ request.route = route /\ request.method = "POST"
Called(name) == \E i \in 1..Len(handling.calls) : handling.calls[i] = name

\* the reply is missing or is not JSON between the brackets the handler looks for
ReplyUnusable(open, close) ==
    \/ handling.gem_text.kind = "None"
    \/ ~JsonLoads(SearchGroup(handling.gem_text.toks, open, close)).ok

\* C7: a POST to /match or /score with non-empty inputs ends by rendering a result,
\* never with an unhandled exception, whatever the external model did; a failed or
\* malformed reply gives the fallback (the empty match list, the local ATS score).
C7_HandlersAlwaysRender ==
    /\ (Posted("/match") /\ handling.resume_text # << >>) =>
          /\ http_response.status = "rendered"
          /\ http_response.passed
          /\ ReplyUnusable("[", "]") => http_response.value = JList(<< >>)
    /\ (Posted("/score") /\ handling.resume_text # << >> /\ handling.job_desc # << >>) =>
          /\ http_response.status = "rendered"
          /\ http_response.passed
          /\ ReplyUnusable("{", "}") =>
                http_response.value =
                    AppAtsScoreLocal(handling.resume_text, handling.job_desc)

\* C7 witness: /match ends with an AttributeError when the model replies with an
\* array of strings
C7_Witness ==
    /\ Posted("/match")
    /\ handling.gem_text = TextReply(Arr(<<<<Str("python")>>, <<Str("sql")>>>>))
    /\ http_response.status = "exception"
    /\ http_response.error = "AttributeError"

\* the resume text of the request: the text of the uploaded file when there is one,
\* else the pasted text
EffectiveResume ==
    IF request.upload.filename # << >>
    THEN SafeExtractText(request.upload, x_parser_ok)
    ELSE Strip(request.resume_text)

\* C9: in a POST to /score, the external model and ats_score_local are called only
\* when the resume text (the upload replaces the pasted text) and the job description
\* are both non-empty; when one is empty the handler flashes the warning and renders
\* no result.
C9_ScoreValidatesFirst ==
    Posted("/score") =>
        LET complete == EffectiveResume # << >> /\ Strip(request.job_desc) # << >> IN
        /\ (Called("ask_gemini_json") \/ Called("ats_score_local")) => complete
        /\ ~complete =>
              /\ Called("flash")
              /\ http_response = RenderedBare("score.html")

\* C9 witness: an uploaded PDF without text replaces a pasted resume, and the request
\* is refused although a resume was pasted and a job description given
C9_Witness ==
    /\ Posted("/score")
    /\ Strip(request.resume_text) # << >>
    /\ Strip(request.job_desc) # << >>
    /\ request.upload.filename # << >>
    /\ handling.calls = <<"safe_extract_text", "flash">>
    /\ http_response = RenderedBare("score.html")

---------------------------------------------------------------------------
(* Properties of the download handlers *)

\* C11: when download requests are handled at the same time, under every
\* interleaving of their write-file and send-file steps, each response delivers the
\* file generated from its own request's data, never the one another request wrote.
C11_OwnFileDelivered ==
    \A i \in 1..MaxRequests :
        dl_pc[i] = "sent" =>
            dl_sent[i] = DownloadContent(dl_request[i].route, dl_request[i].args)

\* C11 witness: two /download_pdf requests with different data; the second wrote
\* resume.pdf between the first one's write and send, and the first delivered the
\* second's file
C11_Witness ==
    /\ dl_request[1].route = "/download_pdf" /\ dl_request[2].route = "/download_pdf"
    /\ dl_pc[1] = "sent" /\ dl_pc[2] \in {"written", "sent"}
    /\ DownloadContent("/download_pdf", dl_request[1].args)
           # DownloadContent("/download_pdf", dl_request[2].args)
    /\ dl_sent[1] = DownloadContent("/download_pdf", dl_request[2].args)

====
